---- MODULE Spec2Model ----
(***************************************************************************)
(* Model of the camera capture page, src/src/app/page.tsx (component Home).*)
(*                                                                         *)
(* The component owns three useState slices (stream, error,                *)
(* capturedImages) and one ref (videoRef).  Every event handler runs to    *)
(* completion on the UI thread; the state update it makes is rendered and  *)
(* the effects of that render (lines 73-85) are run before the next event  *)
(* is handled, so one action is: handler + re-render + effects.  The only  *)
(* asynchronous boundary is the await of getUserMedia (line 22): the call  *)
(* of startCamera and the resolution of its request are separate actions.  *)
(***************************************************************************)
EXTENDS Integers, Sequences, FiniteSets

\* ---- bounds of the model ----
MaxSessions == 2   \* sessions the acquisition API grants in one run
MaxPending  == 2   \* start requests in flight at once
MaxImages   == 2   \* captures in one run
MaxClock    == 1   \* clock ticks in one run
NumTracks   == 1   \* tracks of a stream that getUserMedia({video: true}) grants

\* ---- values ----
NoStream == 0      \* stream === null
NoError  == "null" \* error === null
ErrorMessage == "camera access failed; check the browser settings"
Tracks == 1..NumTracks

VARIABLES
  mounted,         \* the component instance is mounted
  stream,          \* useState stream: NoStream or the index of a session in media
  error,           \* useState error: NoError or a message
  capturedImages,  \* useState capturedImages: sequence of CapturedImage
  videoRef,        \* videoRef.current is the <video> element (TRUE) or null (FALSE)
  srcObject,       \* videoRef.current.srcObject, NoStream when unset
  pending,         \* number of getUserMedia requests not yet resolved
  media,           \* every MediaStream granted so far: its tracks and the
                   \* number of times its tracks were iterated with track.stop()
  clock,           \* Date.now()
  uncaught,        \* an exception escaped from startCamera
  op,              \* the last event handled
  prevImages       \* capturedImages as the last event found it

vars == <<mounted, stream, error, capturedImages, videoRef, srcObject,
          pending, media, clock, uncaught, op, prevImages>>

\* ---- MediaStream objects ----
\* a stream as getUserMedia returns it: every track live, never released
NewMediaStream == [tracks |-> [t \in Tracks |-> "live"], stops |-> 0]

\* stream.getTracks().forEach((track) => track.stop())
StopTracks(m, s) ==
  [m EXCEPT ![s] = [tracks |-> [t \in Tracks |-> "ended"], stops |-> @.stops + 1]]

\* a session is alive while one of its tracks is not halted
Live(m, s) == \E t \in Tracks : m[s].tracks[t] = "live"

\* ---- rendering and effects ----
\* a page that renders the <video> element whether or not stream is set
VideoRendered_Always(s) == TRUE

\* line 102: the <video ref={videoRef}> element is rendered iff stream is set,
\* so after a render videoRef.current is the element iff stream is set
VideoRendered(s) == s # NoStream

\* a cleanup that forgets to stop the tracks
CleanupEffect_Skip(m, old) == m

\* lines 79-85, the cleanup returned by the second effect: it closes over the
\* stream of the render that installed it
CleanupEffect(m, old) == IF old # NoStream THEN StopTracks(m, old) ELSE m

\* the effects have [stream] as dependencies (lines 77, 85): the cleanup of the
\* previous render runs when a render changes stream
RunCleanup(m, old, new) == IF old # new THEN CleanupEffect(m, old) ELSE m

\* an effect that binds only an element that has no feed yet
BindEffect_Once(ref, s, cur) == IF ref /\ s # NoStream /\ cur = NoStream THEN s ELSE cur

\* lines 73-77, the first effect: if (videoRef.current && stream) srcObject = stream
BindEffect(ref, s, cur) == IF ref /\ s # NoStream THEN s ELSE cur

\* the render that follows setStream(new), with the effects it runs; m is the
\* media as the handler left it.  A <video> element that is removed takes its
\* srcObject with it; one that is created starts with srcObject unset.
Render(m, new) ==
  /\ stream' = new
  /\ videoRef' = VideoRendered(new)
  /\ srcObject' = BindEffect(VideoRendered(new), new,
                             IF VideoRendered(new) /\ videoRef THEN srcObject ELSE NoStream)
  /\ media' = RunCleanup(m, stream, new)

\* ---- startCamera, lines 19-32 ----
\* lines 20-22: setError(null), then the request is issued and awaited
startCamera ==
  /\ pending < MaxPending
  /\ error' = NoError
  /\ pending' = pending + 1
  /\ UNCHANGED <<mounted, stream, capturedImages, videoRef, srcObject, media,
                 clock, uncaught>>

\* lines 22-25: the request resolves with a MediaStream; setStream(mediaStream).
\* A state update of an unmounted component is dropped by the framework.
StartResolved ==
  /\ pending > 0
  /\ Len(media) < MaxSessions
  /\ pending' = pending - 1
  /\ LET granted == Append(media, NewMediaStream)
         mediaStream == Len(granted)
     IN IF mounted
          THEN Render(granted, mediaStream)
          ELSE /\ media' = granted
               /\ UNCHANGED <<stream, videoRef, srcObject>>
  /\ op' = "resolved"
  /\ prevImages' = capturedImages
  /\ UNCHANGED <<mounted, error, capturedImages, clock, uncaught>>

\* the catch clause of lines 26-31 handles every rejection: console.error and
\* setError, nothing is rethrown to the caller
CatchRethrows == FALSE

\* lines 26-31: the request rejects; console.error, setError(message)
StartRejected ==
  /\ pending > 0
  /\ pending' = pending - 1
  /\ error' = IF mounted THEN ErrorMessage ELSE error
  /\ uncaught' = (uncaught \/ CatchRethrows)
  /\ op' = "rejected"
  /\ prevImages' = capturedImages
  /\ UNCHANGED <<mounted, stream, capturedImages, videoRef, srcObject, media, clock>>

\* ---- stopCamera, lines 34-39 ----
\* a stop that also resets the error message
stopCamera_ClearsError ==
  /\ IF stream # NoStream
       THEN Render(StopTracks(media, stream), NoStream)
       ELSE UNCHANGED <<stream, videoRef, srcObject, media>>
  /\ error' = NoError
  /\ UNCHANGED <<mounted, capturedImages, pending, clock, uncaught>>

stopCamera ==
  /\ IF stream # NoStream
       THEN Render(StopTracks(media, stream), NoStream)
       ELSE UNCHANGED <<stream, videoRef, srcObject, media>>
  /\ UNCHANGED <<mounted, error, capturedImages, pending, clock, uncaught>>

\* ---- captureImage, lines 41-59 ----
\* line 46: getContext("2d") of a canvas that was just created yields a context
HasContext == TRUE

\* line 51: the id is "img-" followed by the clock reading
ImageId(now) == <<"img", now>>

\* lines 43-49: the frame drawn from the video element, encoded; it is a frame
\* of the feed the element is bound to
DataUrl(src) == <<"jpeg", src>>

\* a record created already selected
NewImage_Selected(now, later) ==
  [id |-> ImageId(now), dataUrl |-> DataUrl(srcObject), selected |-> TRUE,
   timestamp |-> later]

\* lines 50-55; Date.now() is read twice, at line 51 and at line 54
NewImage(now, later) ==
  [id |-> ImageId(now), dataUrl |-> DataUrl(srcObject), selected |-> FALSE,
   timestamp |-> later]

\* an append that also clears the selection of the existing entries
AppendImage_Deselect(prev, newImage) ==
  Append([i \in 1..Len(prev) |-> [prev[i] EXCEPT !.selected = FALSE]], newImage)

\* line 56: setCapturedImages((prev) => [...prev, newImage])
AppendImage(prev, newImage) == Append(prev, newImage)

captureImage ==
  /\ IF videoRef /\ HasContext
       THEN \E later \in {clock, clock + 1} :
              /\ later <= MaxClock
              /\ Len(capturedImages) < MaxImages
              /\ capturedImages' = AppendImage(capturedImages, NewImage(clock, later))
              /\ clock' = later
       ELSE UNCHANGED <<capturedImages, clock>>
  /\ UNCHANGED <<mounted, stream, error, videoRef, srcObject, pending, media, uncaught>>

\* ---- toggleImageSelection, lines 61-67 ----
\* a toggle that selects instead of flipping
ToggleOne_Select(img, id) == IF img.id = id THEN [img EXCEPT !.selected = TRUE] ELSE img

\* line 64: img.id === id ? { ...img, selected: !img.selected } : img
ToggleOne(img, id) == IF img.id = id THEN [img EXCEPT !.selected = ~@] ELSE img

\* lines 62-66: prev.map(...)
ToggleAll(prev, id) == [i \in 1..Len(prev) |-> ToggleOne(prev[i], id)]

toggleImageSelection(id) ==
  /\ capturedImages' = ToggleAll(capturedImages, id)
  /\ UNCHANGED <<mounted, stream, error, videoRef, srcObject, pending, media,
                 clock, uncaught>>

\* ---- deleteSelectedImages, lines 69-71 ----
\* a filter with the predicate inverted
Kept_Inverted(img) == img.selected

\* line 70: the predicate of the filter
Kept(img) == ~img.selected

\* line 70: prev.filter((img) => !img.selected)
FilterKept(prev) == SelectSeq(prev, Kept)

deleteSelectedImages ==
  /\ capturedImages' = FilterKept(capturedImages)
  /\ UNCHANGED <<mounted, stream, error, videoRef, srcObject, pending, media,
                 clock, uncaught>>

\* ---- the rendered page, lines 87-190: which handler an event can reach ----
\* lines 120-126: the start button is rendered while stream is null
ClickStart ==
  /\ mounted
  /\ stream = NoStream
  /\ startCamera
  /\ op' = "start"
  /\ prevImages' = capturedImages

\* lines 127-141: the capture and stop buttons are rendered while stream is set
ClickStop ==
  /\ mounted
  /\ stream # NoStream
  /\ stopCamera
  /\ op' = "stop"
  /\ prevImages' = capturedImages

ClickCapture ==
  /\ mounted
  /\ stream # NoStream
  /\ captureImage
  /\ op' = "capture"
  /\ prevImages' = capturedImages

\* lines 160-163: every tile of the gallery toggles its own id
ClickTile ==
  /\ mounted
  /\ \E i \in 1..Len(capturedImages) : toggleImageSelection(capturedImages[i].id)
  /\ op' = "toggle"
  /\ prevImages' = capturedImages

\* line 150: capturedImages.some((img) => img.selected)
SomeSelected(images) == \E i \in 1..Len(images) : images[i].selected

\* a delete button rendered whenever the gallery section is
DeleteButtonShown_NonEmpty == Len(capturedImages) > 0

\* lines 146-157: the delete button is rendered inside the gallery section
\* (line 146, a non-empty gallery) while some image is selected (line 150)
DeleteButtonShown == Len(capturedImages) > 0 /\ SomeSelected(capturedImages)

ClickDelete ==
  /\ mounted
  /\ DeleteButtonShown
  /\ deleteSelectedImages
  /\ op' = "delete"
  /\ prevImages' = capturedImages

\* ---- teardown of the view ----
\* The framework runs the cleanup of the last render (lines 80-84) and detaches
\* the ref; the state slices are not written.
Unmount ==
  /\ mounted
  /\ mounted' = FALSE
  /\ media' = CleanupEffect(media, stream)
  /\ videoRef' = FALSE
  /\ srcObject' = NoStream
  /\ op' = "unmount"
  /\ prevImages' = capturedImages
  /\ UNCHANGED <<stream, error, capturedImages, pending, clock, uncaught>>

\* ---- the clock ----
Tick ==
  /\ clock < MaxClock
  /\ clock' = clock + 1
  /\ op' = "tick"
  /\ prevImages' = capturedImages
  /\ UNCHANGED <<mounted, stream, error, capturedImages, videoRef, srcObject,
                 pending, media, uncaught>>

\* line 113: the label of the placeholder when no message is set
CameraOff == "camera off"

\* line 113: error || "camera off"
PlaceholderText(e) == IF e # NoError THEN e ELSE CameraOff

\* lines 102-116: the preview is the video element with its feed while stream
\* is set, the placeholder with its text otherwise
Preview ==
  IF VideoRendered(stream)
    THEN <<"video", srcObject>>
    ELSE <<"placeholder", PlaceholderText(error)>>

\* ---- the handlers called directly, whatever the page shows ----
\* the ids a caller can pass: those captureImage can have produced (line 51)
AllIds == {ImageId(now) : now \in 0..MaxClock}

CallStart == mounted /\ startCamera /\ op' = "start" /\ prevImages' = capturedImages

CallStop == mounted /\ stopCamera /\ op' = "stop" /\ prevImages' = capturedImages

CallCapture ==
  /\ mounted
  /\ captureImage
  /\ op' = "capture"
  /\ prevImages' = capturedImages

CallToggle ==
  /\ mounted
  /\ \E id \in AllIds : toggleImageSelection(id)
  /\ op' = "toggle"
  /\ prevImages' = capturedImages

CallDelete ==
  /\ mounted
  /\ deleteSelectedImages
  /\ op' = "delete"
  /\ prevImages' = capturedImages

\* ---- the specification ----
\* lines 14-17: the initial values of the state slices and of the ref
Init ==
  /\ mounted = TRUE
  /\ stream = NoStream
  /\ error = NoError
  /\ capturedImages = <<>>
  /\ videoRef = FALSE
  /\ srcObject = NoStream
  /\ pending = 0
  /\ media = <<>>
  /\ clock = 0
  /\ uncaught = FALSE
  /\ op = "init"
  /\ prevImages = <<>>

Next ==
  \/ ClickStart
  \/ StartResolved
  \/ StartRejected
  \/ ClickStop
  \/ ClickCapture
  \/ ClickTile
  \/ ClickDelete
  \/ Unmount
  \/ Tick

Spec == Init /\ [][Next]_vars

\* the operations of the component invoked in any order, also where the page
\* renders no control for them
NextApi ==
  \/ CallStart
  \/ StartResolved
  \/ StartRejected
  \/ CallStop
  \/ CallCapture
  \/ CallToggle
  \/ CallDelete
  \/ Unmount
  \/ Tick

SpecApi == Init /\ [][NextApi]_vars

\* ---- properties ----
Sessions == 1..Len(media)
Ids == {capturedImages[i].id : i \in 1..Len(capturedImages)}

\* the state of the device lifecycle: Active (session present), Errored (no
\* session, message set), Idle (neither)
Lifecycle(s, e) ==
  IF s # NoStream THEN "Active" ELSE IF e # NoError THEN "Errored" ELSE "Idle"

\* C1: the release routine (track.stop() on every track of a session) is never
\* run a second time on the same session.
C1_ReleasedAtMostOnce == \A s \in Sessions : media[s].stops <= 1

\* C2: a teardown of the view while a session is active halts every track of
\* that session, as stopCamera does (line 36), so the session is not live
\* afterwards.
C2_TeardownReleases ==
  [][(mounted /\ ~mounted' /\ stream # NoStream) =>
       /\ \A t \in Tracks : media'[stream].tracks[t] = "ended"
       /\ media'[stream].tracks = StopTracks(media, stream)[stream].tracks
       /\ ~Live(media', stream)
       /\ \A s \in Sessions \ {stream} : media'[s] = media[s]]_vars

C2_Witness ==
  /\ op = "unmount"
  /\ ~mounted
  /\ stream # NoStream
  /\ media[stream].stops = 1
  /\ ~Live(media, stream)

\* C3: stream and error are never both set.
C3_SessionXorError == ~(stream # NoStream /\ error # NoError)

\* C4: at most one granted session has a live track.
C4_AtMostOneLive == Cardinality({s \in Sessions : Live(media, s)}) <= 1

\* the transitions of the lifecycle the specification lists, as
\* <<state before, event, state after>>
ListedTransitions ==
  { <<"Idle", "resolved", "Active">>, <<"Idle", "rejected", "Errored">>,
    <<"Active", "stop", "Idle">>, <<"Errored", "resolved", "Active">>,
    <<"Errored", "rejected", "Errored">>, <<"Active", "unmount", "Idle">> }

\* C5: every change of (stream, error) is one of the listed transitions of the
\* lifecycle.
C5_OnlyListedTransitions ==
  [][<<stream, error>>' # <<stream, error>> =>
       <<Lifecycle(stream, error), op', Lifecycle(stream', error')>>
         \in ListedTransitions]_vars

\* C6: when a start request fails (the view still mounted), afterwards error
\* is the fixed message, stream is absent and no exception has escaped.
C6_FailureLeavesErrored ==
  [][(op' = "rejected" /\ mounted) =>
       (error' = ErrorMessage /\ stream' = NoStream /\ ~uncaught')]_vars

\* C7: when a start request succeeds (the view still mounted), afterwards
\* stream is the granted handle and error is clear.
C7_SuccessLeavesActive ==
  [][(op' = "resolved" /\ mounted) =>
       (stream' = Len(media') /\ error' = NoError)]_vars

\* C8: the ids of the gallery entries are pairwise distinct.
C8_IdsDistinct ==
  \A i, j \in 1..Len(capturedImages) :
    capturedImages[i].id = capturedImages[j].id => i = j

C10_CaptureKeepsPrefix ==
  [][op' = "capture" =>
       /\ Len(capturedImages') >= Len(capturedImages)
       /\ SubSeq(capturedImages', 1, Len(capturedImages)) = capturedImages]_vars

C10_Witness ==
  /\ op = "capture"
  /\ Len(capturedImages) >= 2
  /\ capturedImages[1].selected
  /\ capturedImages[1].id # capturedImages[2].id

\* C11: a capture with no bound feed (no video element), and in particular a
\* capture that directly follows a stop, leaves the gallery as it was.
C11_CaptureUnboundNoop ==
  [][(op' = "capture" /\ (~videoRef \/ srcObject = NoStream \/ op = "stop")) =>
       capturedImages' = capturedImages]_vars

C11_Witness ==
  /\ op = "capture"
  /\ stream = NoStream
  /\ ~videoRef
  /\ \E s \in Sessions : media[s].stops > 0
  /\ Len(capturedImages) >= 1
  /\ prevImages = capturedImages

\* C12: a toggle flips the selected flag of the one entry whose id is the
\* argument (of no entry if none has that id) and leaves every other entry, the
\* order and the length as they were.
C12_ToggleFlipsOne ==
  [][op' = "toggle" =>
       /\ Len(capturedImages') = Len(capturedImages)
       /\ \E id \in AllIds :
            LET hits == {i \in 1..Len(capturedImages) : capturedImages[i].id = id}
            IN /\ Cardinality(hits) <= 1
               /\ \A i \in 1..Len(capturedImages) :
                    capturedImages'[i] =
                      IF i \in hits
                        THEN [capturedImages[i] EXCEPT !.selected = ~@]
                        ELSE capturedImages[i]]_vars

\* C13: toggling an id twice in a row gives back the gallery as it was: the
\* result of a toggle, toggled again with the same id, is the gallery before
\* it, and two successive toggle steps of one id end in the gallery they
\* started from.
C13_ToggleTwiceRestores ==
  [][/\ op' = "toggle" =>
          \A id \in AllIds :
            capturedImages' = ToggleAll(capturedImages, id) =>
              ToggleAll(capturedImages', id) = capturedImages
     /\ (op = "toggle" /\ op' = "toggle") =>
          \A id \in AllIds :
            (/\ capturedImages = ToggleAll(prevImages, id)
             /\ capturedImages' = ToggleAll(capturedImages, id)) =>
              capturedImages' = prevImages]_vars

C13_Witness ==
  /\ op = "toggle"
  /\ Len(capturedImages) >= 2
  /\ capturedImages[1].id # capturedImages[2].id
  /\ capturedImages # prevImages
  /\ \E id \in AllIds : ToggleAll(capturedImages, id) = prevImages

\* the entries of images with selected = false, in their order: entry k of the
\* result is the entry of images at the k-th unselected position
UnselectedSubsequence(images) ==
  LET keep == {i \in 1..Len(images) : ~images[i].selected}
      Nth(k) == CHOOSE i \in keep : Cardinality({j \in keep : j < i}) = k - 1
  IN [k \in 1..Cardinality(keep) |-> images[Nth(k)]]

\* C14: a delete leaves exactly the unselected entries, unchanged and in their
\* order; so when two unselected captures are followed by a toggle of the first
\* one's id and a delete, the gallery is the second capture alone, unselected.
C14_DeleteRemovesSelected ==
  [][/\ op' = "delete" => capturedImages' = UnselectedSubsequence(capturedImages)
     /\ (/\ op = "toggle"
         /\ op' = "delete"
         /\ Len(prevImages) = 2
         /\ ~SomeSelected(prevImages)
         /\ capturedImages = ToggleAll(prevImages, prevImages[1].id)) =>
          capturedImages' = <<prevImages[2]>>]_vars

\* C15: a delete applied to the result of a delete changes nothing, and a
\* delete with no entry selected leaves the gallery as it was.
C15_DeleteIdempotent ==
  [][/\ op' = "delete" =>
          /\ FilterKept(capturedImages') = capturedImages'
          /\ ~SomeSelected(capturedImages) => capturedImages' = capturedImages
     /\ (op = "delete" /\ op' = "delete") => capturedImages' = capturedImages]_vars

C15_Witness ==
  /\ op = "delete"
  /\ Len(capturedImages) >= 1
  /\ prevImages = capturedImages

\* C16: a stop with no active session changes nothing (session, error, gallery,
\* preview, requests in flight, tracks), and a stop that follows a stop leaves
\* the state the first one produced.
C16_StopIdempotent ==
  [][(op' = "stop" /\ (stream = NoStream \/ op = "stop")) =>
       UNCHANGED <<mounted, stream, error, capturedImages, videoRef, srcObject,
                   pending, media, clock, uncaught>>]_vars

C16_Witness ==
  /\ op = "stop"
  /\ stream = NoStream
  /\ error = ErrorMessage
  /\ Len(media) = 0

\* C17: while the view is mounted the delete button is shown iff some entry is
\* selected; a delete is clicked only with an entry selected, and the button is
\* hidden right after it.
C17_DeleteShownIffSelected ==
  /\ [](mounted => (DeleteButtonShown <=> SomeSelected(capturedImages)))
  /\ [][op' = "delete" =>
          (SomeSelected(capturedImages) /\ ~DeleteButtonShown')]_vars

C17_Witness ==
  /\ op = "delete"
  /\ mounted
  /\ Len(capturedImages) >= 1
  /\ Len(prevImages) > Len(capturedImages)
  /\ ~DeleteButtonShown

\* C18: while the view is mounted, a set stream is shown by the video element
\* bound to exactly that stream, and an absent stream by the placeholder with
\* the error message if one is set and the camera-off label otherwise.
C18_PreviewBound ==
  mounted =>
    /\ videoRef = (stream # NoStream)
    /\ Preview = IF stream # NoStream
                   THEN <<"video", stream>>
                   ELSE <<"placeholder", IF error # NoError THEN error ELSE CameraOff>>

C18_Witness ==
  /\ mounted
  /\ op = "resolved"
  /\ stream = 2
  /\ srcObject = 2
  /\ media[1].stops = 1
  /\ ~Live(media, 1)

\* C19: when the later of two overlapping start requests resolves, the state is
\* what that request alone would have produced: its handle and no error if it
\* succeeded, the message and no session if it failed.
C19_LastResolutionWins ==
  [][(/\ mounted
      /\ op \in {"resolved", "rejected"}
      /\ pending = 1
      /\ op' \in {"resolved", "rejected"}) =>
       /\ op' = "resolved" => (stream' = Len(media') /\ error' = NoError)
       /\ op' = "rejected" => (stream' = NoStream /\ error' = ErrorMessage)]_vars

\* C20: once the view is torn down and no start request is pending, no granted
\* session has a live track.
C20_NoLeakAfterTeardown ==
  (~mounted /\ pending = 0) => \A s \in Sessions : ~Live(media, s)

====
